---- MODULE Spec2Model ----
(***************************************************************************)
(* A model of the carbon-aware GPU job scheduler:                          *)
(*   backend/job_queue.py         JobQueue (the job store and its file)    *)
(*   backend/emissions_tracker.py GPUEmissionsTracker (the ledger)         *)
(*   backend/carbon_scheduler.py  CarbonAwareScheduler (evaluate / run)    *)
(* One caller at a time invokes the public methods; run_scheduled_job is   *)
(* split at its time.sleep so that the Running state in between is a       *)
(* state of the model.  ConcurrentSpec adds a second session of the        *)
(* dashboard, whose schedule_pending_jobs is split at its request to the   *)
(* provider.                                                               *)
(*                                                                         *)
(* Time is an integer number of hours, and the calls of one behaviour all  *)
(* read the clock within the same hour, Now.  An optional value (Python    *)
(* None) is the empty sequence << >> and a present value v is << v >>.     *)
(* Emissions are integers (the instrument's kg figure in model units).     *)
(* A reference to a job object is its position in JobQueue.jobs: jobs are  *)
(* appended and never removed, so positions are stable.                    *)
(***************************************************************************)
EXTENDS Integers, Sequences, FiniteSets, TLC

\* ---------------------------------------------------------------- bounds
MaxJobs == 2      \* jobs ever added to the store
MaxEvals == 2     \* schedule_pending_jobs calls (length of schedule_history)
MaxLog == 2       \* records in the emissions log
Now == 0          \* the hour in which the calls are made
MaxRegions == 2   \* regions in the list of one comparison

\* ------------------------------------------------------------- JobStatus
PENDING == "pending"
SCHEDULED == "scheduled"
RUNNING == "running"
COMPLETED == "completed"
DEFERRED == "deferred"

JobStatus == {PENDING, SCHEDULED, RUNNING, COMPLETED, DEFERRED}

\* The re-scheduling horizon of a deferred job, in hours.
RescheduleHours == 6

\* The cap of the simulated execution, in seconds.
SleepCap == 5

None == << >>

\* ---------------------------------------------------------------- inputs
JobIds == {"j1", "j2"}

\* What a caller may pass as new_status: the field is an untyped string.
StatusInputs == {PENDING, SCHEDULED}

\* Grid intensities the provider may report (gCO2/kWh).
Intensities == {300, 400}

\* Region codes a caller may pass: the five with a baseline and one without.
Regions == {"IN", "US", "DE", "NO", "AU", "XX"}

\* What random.randint(-100, 100) may draw.
JitterRange == 100

Jitters == {0 - JitterRange, 0 - 1, 0, JitterRange}

\* Emission figures the measurement instrument may return from stop().
EmissionReadings == {0, 3}

\* GPUJob(...) as a caller may construct it.  The dataclass sets status,
\* scheduled_for and emissions_avoided_kg from its defaults unless the caller
\* passes them, and submitted_at from the clock when it is None.
GPUJob(id, shape, now) ==
    [ job_id |-> id,
      name |-> shape.name,
      duration_minutes |-> shape.duration_minutes,
      power_draw_watts |-> shape.power_draw_watts,
      priority |-> shape.priority,
      status |-> shape.status,
      carbon_intensity_threshold |-> shape.carbon_intensity_threshold,
      submitted_at |-> << now >>,
      scheduled_for |-> None,
      emissions_avoided_kg |-> shape.emissions_avoided_kg ]

Shape(n, d, w, p, t, s, e) ==
    [ name |-> n, duration_minutes |-> d, power_draw_watts |-> w,
      priority |-> p, carbon_intensity_threshold |-> t, status |-> s,
      emissions_avoided_kg |-> e ]

\* The jobs the callers of the model submit: two as the dashboard's form
\* builds them (values within its sliders, default status and emissions), and
\* one built directly, which the dataclass accepts as well: a negative
\* duration, no power draw, priority 6 and an emissions figure already set.
JobShapes ==
    { Shape("train", 30, 250, 1, 400, PENDING, 0),
      Shape("tune", 30, 250, 5, 200, PENDING, 0),
      Shape("tune", 0 - 5, 0, 6, 400, PENDING, 3) }

\* ----------------------------------------------------------------- state
VARIABLES
    jobs,              \* JobQueue.jobs: the list of GPUJob objects
    db_file,           \* the content of data/jobs.db: a list of JSON objects
    tracker,           \* GPUEmissionsTracker.tracker is not None
    current_job,       \* GPUEmissionsTracker.current_job (None before a start)
    start_time,        \* GPUEmissionsTracker.start_time (None before a start)
    emissions_log,     \* GPUEmissionsTracker.emissions_log
    emissions_file,    \* the content of data/emissions.json
    schedule_history,  \* CarbonAwareScheduler.schedule_history
    pc,                \* "idle", or "sleeping" inside run_scheduled_job
    run_job,           \* the job object run_scheduled_job holds while sleeping
    pc2,               \* a second session: "idle", or "fetching" inside
                       \* schedule_pending_jobs
    ret                \* the last call made and what it returned or raised

vars == << jobs, db_file, tracker, current_job, start_time, emissions_log,
           emissions_file, schedule_history, pc, run_job, pc2, ret >>

\* datetime.now(), in hours.
clock == Now

store == << jobs, db_file >>

ledger == << tracker, current_job, start_time, emissions_log, emissions_file >>

\* ------------------------------------------------------------- job store
\* asdict(job): the dict of a job's fields, a copy field by field; a dict and
\* an object with the same fields are the same record.
asdict(job) == job

\* A JSON value as json.dump writes it: null for None, a string for a str, a
\* number for an int or a float.
JsonNull == << "null" >>

JsonString(s) == << "string", s >>

JsonNumber(n) == << "number", n >>

\* A dump that writes None as the string "None", as str() would.
JsonNoneAsString(v) ==
    IF v = None THEN JsonString("None") ELSE JsonString(v[1])

\* An Optional[str] field, which the model holds as << >> or << v >>.
JsonOptional(v) == IF v = None THEN JsonNull ELSE JsonString(v[1])

\* json.dump of the dict of a job: a JSON object with the dict's keys.
json_dump(d) ==
    [ job_id |-> JsonString(d.job_id),
      name |-> JsonString(d.name),
      duration_minutes |-> JsonNumber(d.duration_minutes),
      power_draw_watts |-> JsonNumber(d.power_draw_watts),
      priority |-> JsonNumber(d.priority),
      status |-> JsonString(d.status),
      carbon_intensity_threshold |-> JsonNumber(d.carbon_intensity_threshold),
      submitted_at |-> JsonOptional(d.submitted_at),
      scheduled_for |-> JsonOptional(d.scheduled_for),
      emissions_avoided_kg |-> JsonNumber(d.emissions_avoided_kg) ]

\* What json.load makes of a JSON value: None of null, the str or the number
\* otherwise.
PythonValue(v) == IF v = JsonNull THEN None ELSE v[2]

PythonOptional(v) == IF v = JsonNull THEN None ELSE << v[2] >>

\* json.load of a JSON object of the file: a dict with the object's keys.
json_load(object) ==
    [ job_id |-> PythonValue(object.job_id),
      name |-> PythonValue(object.name),
      duration_minutes |-> PythonValue(object.duration_minutes),
      power_draw_watts |-> PythonValue(object.power_draw_watts),
      priority |-> PythonValue(object.priority),
      status |-> PythonValue(object.status),
      carbon_intensity_threshold |->
          PythonValue(object.carbon_intensity_threshold),
      submitted_at |-> PythonOptional(object.submitted_at),
      scheduled_for |-> PythonOptional(object.scheduled_for),
      emissions_avoided_kg |-> PythonValue(object.emissions_avoided_kg) ]

\* save_jobs: the file is rewritten with the dict of every job.
save_jobs(js) == [ i \in 1..Len(js) |-> json_dump(asdict(js[i])) ]

\* GPUJob(**job) on a dict read from the file: every field is taken from the
\* dict, and __post_init__ sets submitted_at from the clock when it is None.
GPUJobFromDict(d, now) ==
    [ d EXCEPT !.submitted_at = IF @ = None THEN << now >> ELSE @ ]

\* load_jobs: a GPUJob is built from every dict of the file.
load_jobs(file, now) ==
    [ i \in 1..Len(file) |-> GPUJobFromDict(json_load(file[i]), now) ]

\* The position of the first job with this id, 0 when there is none.
FirstWithId(js, id) ==
    IF \E i \in 1..Len(js) : js[i].job_id = id
    THEN CHOOSE i \in 1..Len(js) :
            /\ js[i].job_id = id
            /\ \A k \in 1..(i - 1) : js[k].job_id # id
    ELSE 0

\* update_job_status: the first job with the id gets the status, whatever it
\* is, and the file is saved; nothing happens when no job has the id.
\* The result is the new list, the new file content and the value returned.
update_job_status(js, file, id, new_status) ==
    LET i == FirstWithId(js, id) IN
    IF i = 0
    THEN [ jobs |-> js, file |-> file, value |-> FALSE ]
    ELSE LET js1 == [ js EXCEPT ![i].status = new_status ] IN
         [ jobs |-> js1, file |-> save_jobs(js1), value |-> TRUE ]

\* get_jobs_by_status: the positions of the jobs with the status, in list order.
RECURSIVE get_jobs_by_status(_, _, _)
get_jobs_by_status(js, status, i) ==
    IF i > Len(js) THEN << >>
    ELSE IF js[i].status = status
         THEN << i >> \o get_jobs_by_status(js, status, i + 1)
         ELSE get_jobs_by_status(js, status, i + 1)

\* A sort that is not stable: a job goes before the jobs of its own priority.
RECURSIVE InsertBeforeEqualPriority(_, _, _)
InsertBeforeEqualPriority(js, sortedSeq, i) ==
    IF sortedSeq = << >> THEN << i >>
    ELSE IF js[Head(sortedSeq)].priority > js[i].priority
         THEN << Head(sortedSeq) >>
                  \o InsertBeforeEqualPriority(js, Tail(sortedSeq), i)
         ELSE << i >> \o sortedSeq

\* sorted(..., key=priority, reverse=True): a stable insertion sort.  Python's
\* sort is stable and reverse=True keeps the order of equal keys.
RECURSIVE InsertByPriority(_, _, _)
InsertByPriority(js, sortedSeq, i) ==
    IF sortedSeq = << >> THEN << i >>
    ELSE IF js[Head(sortedSeq)].priority >= js[i].priority
         THEN << Head(sortedSeq) >> \o InsertByPriority(js, Tail(sortedSeq), i)
         ELSE << i >> \o sortedSeq

RECURSIVE SortedByPriority(_, _)
SortedByPriority(js, s) ==
    IF s = << >> THEN << >>
    ELSE InsertByPriority(js, SortedByPriority(js, SubSeq(s, 1, Len(s) - 1)),
                          s[Len(s)])

\* get_prioritized_queue: the pending jobs, highest priority first.
get_prioritized_queue(js) ==
    SortedByPriority(js, get_jobs_by_status(js, PENDING, 1))

\* calculate_emissions_for_job, in units of 1/600000 kg:
\* (watts / 1000) * (minutes / 60) * 0.8.
calculate_emissions_for_job(job) ==
    job.power_draw_watts * job.duration_minutes * 8

\* -------------------------------------------------------- carbon provider
\* Bands that take an intensity of exactly 400 as MEDIUM.
GreennessThrough400(intensity) ==
    IF intensity < 200 THEN "HIGH"
    ELSE IF intensity <= 400 THEN "MEDIUM"
    ELSE "LOW"

\* The greenness band of an intensity.
Greenness(intensity) ==
    IF intensity < 200 THEN "HIGH"
    ELSE IF intensity < 400 THEN "MEDIUM"
    ELSE "LOW"

\* The recommendation that goes with the band (without its pictograph).
Recommendation(intensity) ==
    IF intensity < 200 THEN "Schedule jobs NOW - Clean grid"
    ELSE IF intensity < 400 THEN "Wait for better conditions"
    ELSE "Defer jobs - Dirty grid"

\* The band and the recommendation as _get_mock_data computes them.
MockGreenness(intensity) ==
    IF intensity < 200 THEN "HIGH"
    ELSE IF intensity < 400 THEN "MEDIUM"
    ELSE "LOW"

MockRecommendation(intensity) ==
    IF intensity < 200 THEN "Schedule jobs NOW"
    ELSE IF intensity < 400 THEN "Monitor grid"
    ELSE "Defer jobs"

\* mock_data.get(region, 500): the baseline of a region.
MockBaseline(region) ==
    CASE region = "IN" -> 800
      [] region = "US" -> 400
      [] region = "DE" -> 350
      [] region = "NO" -> 50
      [] region = "AU" -> 600
      [] OTHER -> 500

\* _get_mock_data(region), random.randint having drawn jitter.
_get_mock_data(region, jitter) ==
    LET intensity == MockBaseline(region) + jitter IN
    [ carbonIntensity |-> intensity,
      timestamp |-> clock,
      greenness |-> MockGreenness(intensity),
      recommendation |-> MockRecommendation(intensity),
      region |-> region,
      unit |-> "gCO2/kWh",
      is_mock |-> TRUE ]

\* What requests.get may come to.  raised: it raised (timeout, no
\* connection); otherwise status_code is the status of the response and json
\* what response.json() gives: None when the body is no JSON (the call
\* raises), else the object parsed.
Response(raised, status_code, json) ==
    [ raised |-> raised, status_code |-> status_code, json |-> json ]

\* Intensities a payload may carry: the band limits and their neighbours.
PayloadIntensities == {0, 199, 200, 399, 400, 401}

Responses ==
    { Response(TRUE, 0, None),
      Response(FALSE, 500, None),
      Response(FALSE, 200, None),
      Response(FALSE, 200, << [ zone |-> JsonString("IN") ] >>),
      Response(FALSE, 200, << [ carbonIntensity |-> JsonNull ] >>) }
    \cup { Response(FALSE, 200, << [ carbonIntensity |-> JsonNumber(v) ] >>) :
               v \in PayloadIntensities }

\* data.get("carbonIntensity", 500) when the key is missing.
DefaultIntensity == 500

\* get_grid_carbon_intensity(region), the request having come to response.
\* Every exception of the try block ends in the mock data: that of
\* requests.get, that of response.json(), and the TypeError of comparing a
\* value that is no number with 200.
get_grid_carbon_intensity(region, response, jitter) ==
    IF response.raised THEN _get_mock_data(region, jitter)
    ELSE IF response.status_code = 200
    THEN IF response.json = None THEN _get_mock_data(region, jitter)
         ELSE LET data == response.json[1] IN
              IF "carbonIntensity" \in DOMAIN data
                   /\ data.carbonIntensity[1] # "number"
              THEN _get_mock_data(region, jitter)
              ELSE LET carbon_intensity ==
                           IF "carbonIntensity" \in DOMAIN data
                           THEN PythonValue(data.carbonIntensity)
                           ELSE DefaultIntensity
                   IN [ carbonIntensity |-> carbon_intensity,
                        timestamp |-> clock,
                        greenness |-> Greenness(carbon_intensity),
                        recommendation |-> Recommendation(carbon_intensity),
                        region |-> region,
                        unit |-> "gCO2/kWh" ]
    ELSE _get_mock_data(region, jitter)

Init ==
    /\ jobs = << >>
    /\ db_file = << >>
    /\ tracker = FALSE
    /\ current_job = None
    /\ start_time = None
    /\ emissions_log = << >>
    /\ emissions_file = << >>
    /\ schedule_history = << >>
    /\ pc = "idle"
    /\ run_job = 0
    /\ pc2 = "idle"
    /\ ret = [ op |-> "init" ]

\* ------------------------------------------------------ JobQueue methods
\* add_job(job): the job is appended as it is and the file is saved.
add_job(job) ==
    /\ pc = "idle"
    /\ Len(jobs) < MaxJobs
    /\ jobs' = Append(jobs, job)
    /\ db_file' = save_jobs(jobs')
    /\ ret' = [ op |-> "add_job", job |-> job, value |-> job.job_id,
                raised |-> None ]
    /\ UNCHANGED << ledger, schedule_history, pc, run_job, pc2 >>

AddJob ==
    \E id \in JobIds, shape \in JobShapes : add_job(GPUJob(id, shape, clock))

\* A direct call of update_job_status(job_id, new_status).
UpdateJobStatus ==
    \E id \in JobIds, new_status \in StatusInputs :
        LET u == update_job_status(jobs, db_file, id, new_status) IN
        /\ pc = "idle"
        /\ jobs' = u.jobs
        /\ db_file' = u.file
        /\ ret' = [ op |-> "update_job_status", job_id |-> id,
                    new_status |-> new_status, value |-> u.value,
                    raised |-> None ]
        /\ UNCHANGED << ledger, schedule_history, pc, run_job, pc2 >>

\* ------------------------------------------- GPUEmissionsTracker methods
\* start_tracking(job_name): a new instrument replaces self.tracker, whatever
\* it held, and is started; current_job and start_time are overwritten.
start_tracking(job_name) ==
    /\ tracker' = TRUE
    /\ current_job' = << job_name >>
    /\ start_time' = << clock >>
    /\ UNCHANGED << emissions_log, emissions_file >>

\* The record stop_tracking builds from the instrument's reading.
EmissionsRecord(emissions) ==
    [ job_name |-> current_job[1],
      emissions_kg_co2 |-> emissions,
      duration_seconds |-> (clock - start_time[1]) * 3600,
      timestamp |-> clock,
      country |-> "IN" ]

\* stop_tracking() with self.tracker set: the record is appended and the log
\* saved; self.tracker keeps the instrument.
stop_tracking(emissions) ==
    /\ emissions_log' = Append(emissions_log, EmissionsRecord(emissions))
    /\ emissions_file' = emissions_log'
    /\ UNCHANGED << tracker, current_job, start_time >>

\* A direct call of start_tracking.
StartTracking ==
    \E job_name \in { s.name : s \in JobShapes } :
        /\ pc = "idle"
        /\ start_tracking(job_name)
        /\ ret' = [ op |-> "start_tracking", job_name |-> job_name,
                    value |-> None, raised |-> None ]
        /\ UNCHANGED << store, schedule_history, pc, run_job, pc2 >>

\* A direct call of stop_tracking: {} when self.tracker is None.
StopTracking ==
    /\ pc = "idle"
    /\ \/ /\ ~tracker
          /\ ret' = [ op |-> "stop_tracking", value |-> << >>, raised |-> None ]
          /\ UNCHANGED ledger
       \/ /\ tracker
          /\ Len(emissions_log) < MaxLog
          /\ \E emissions \in EmissionReadings :
                /\ stop_tracking(emissions)
                /\ ret' = [ op |-> "stop_tracking",
                            value |-> << EmissionsRecord(emissions) >>,
                            raised |-> None ]
    /\ UNCHANGED << store, schedule_history, pc, run_job, pc2 >>

\* The sum of a column of the log, and its largest and smallest entry
\* (DataFrame[...].sum(), .max(), .min()).
RECURSIVE ColumnSum(_, _)
ColumnSum(log, column) ==
    IF log = << >> THEN 0
    ELSE log[1][column] + ColumnSum(Tail(log), column)

ColumnMax(log, column) ==
    CHOOSE m \in { log[i][column] : i \in 1..Len(log) } :
        \A i \in 1..Len(log) : log[i][column] <= m

ColumnMin(log, column) ==
    CHOOSE m \in { log[i][column] : i \in 1..Len(log) } :
        \A i \in 1..Len(log) : m <= log[i][column]

\* A float quotient, kept exact as numerator and denominator.
Quotient(n, d) == [ num |-> n, den |-> d ]

SecondsPerHour == 3600

\* get_emissions_summary(): four fields of 0 on an empty log, six fields
\* computed from the records otherwise.
get_emissions_summary(log) ==
    IF log = << >>
    THEN [ total_jobs |-> 0,
           total_emissions_kg |-> 0,
           avg_emissions_per_job_kg |-> 0,
           total_duration_hours |-> 0 ]
    ELSE [ total_jobs |-> Len(log),
           total_emissions_kg |-> ColumnSum(log, "emissions_kg_co2"),
           avg_emissions_per_job_kg |->
               Quotient(ColumnSum(log, "emissions_kg_co2"), Len(log)),
           total_duration_hours |->
               Quotient(ColumnSum(log, "duration_seconds"), SecondsPerHour),
           max_single_job_kg |-> ColumnMax(log, "emissions_kg_co2"),
           min_single_job_kg |-> ColumnMin(log, "emissions_kg_co2") ]

\* A direct call of get_emissions_summary.
GetEmissionsSummary ==
    /\ pc = "idle"
    /\ ret' = [ op |-> "get_emissions_summary",
                value |-> get_emissions_summary(emissions_log),
                raised |-> None ]
    /\ UNCHANGED << store, ledger, schedule_history, pc, run_job, pc2 >>

\* comparison[region] = status on a dict kept as its items in insertion order:
\* a key the dict has keeps its place and gets the new value, a new key goes
\* to the end.
DictSet(items, key, value) ==
    IF \E i \in 1..Len(items) : items[i].key = key
    THEN [ i \in 1..Len(items) |->
             IF items[i].key = key THEN [ key |-> key, value |-> value ]
             ELSE items[i] ]
    ELSE Append(items, [ key |-> key, value |-> value ])

\* A choice of the item of lowest intensity that takes the last of several.
LastMinItem(items) ==
    CHOOSE i \in 1..Len(items) :
        /\ \A k \in 1..Len(items) :
              items[i].value.carbonIntensity <= items[k].value.carbonIntensity
        /\ \A k \in (i + 1)..Len(items) :
              items[i].value.carbonIntensity < items[k].value.carbonIntensity

\* min(comparison.items(), key=intensity): the position of the first item,
\* in the dict's order, that no item is below.
MinItem(items) ==
    CHOOSE i \in 1..Len(items) :
        /\ \A k \in 1..Len(items) :
              items[i].value.carbonIntensity <= items[k].value.carbonIntensity
        /\ \A k \in 1..(i - 1) :
              items[i].value.carbonIntensity < items[k].value.carbonIntensity

\* The loop of get_multi_region_comparison over regions[k..]: every region is
\* fetched, whatever the fetches before it came to.
RECURSIVE ComparisonLoop(_, _, _, _, _)
ComparisonLoop(comparison, regions, responses, jitters, k) ==
    IF k > Len(regions) THEN comparison
    ELSE ComparisonLoop(
             DictSet(comparison, regions[k],
                     get_grid_carbon_intensity(regions[k], responses[k],
                                               jitters[k])),
             regions, responses, jitters, k + 1)

\* get_multi_region_comparison(regions) for a list that is not empty, the
\* k-th request having come to responses[k].
get_multi_region_comparison(regions, responses, jitters) ==
    LET comparison == ComparisonLoop(<< >>, regions, responses, jitters, 1)
        greenest == comparison[MinItem(comparison)]
    IN [ regions |-> comparison,
         greenest_region |-> greenest.key,
         greenest_intensity |-> greenest.value.carbonIntensity,
         timestamp |-> clock ]

\* Region lists a comparison is called with are drawn from two regions with a
\* baseline and one without; a request of a comparison fails or brings 400.
ComparedRegions == {"US", "DE", "XX"}

ComparedResponses ==
    { Response(TRUE, 0, None),
      Response(FALSE, 200, << [ carbonIntensity |-> JsonNumber(400) ] >>) }

ComparedJitters == {0 - JitterRange, 0}

\* A call of get_multi_region_comparison.
GetMultiRegionComparison ==
    \E n \in 1..MaxRegions :
        \E regions \in [ 1..n -> ComparedRegions ],
           responses \in [ 1..n -> ComparedResponses ],
           jitters \in [ 1..n -> ComparedJitters ] :
            /\ ret' = [ op |-> "get_multi_region_comparison",
                        regions |-> regions,
                        value |-> get_multi_region_comparison(regions,
                                                              responses,
                                                              jitters),
                        raised |-> None ]
            /\ UNCHANGED << store, ledger, schedule_history, pc, run_job,
                            pc2 >>

\* A call of get_grid_carbon_intensity.
GetGridCarbonIntensity ==
    \E region \in Regions, response \in Responses, jitter \in Jitters :
        /\ ret' = [ op |-> "get_grid_carbon_intensity", region |-> region,
                    response |-> response,
                    value |-> get_grid_carbon_intensity(region, response,
                                                        jitter),
                    raised |-> None ]
        /\ UNCHANGED << store, ledger, schedule_history, pc, run_job, pc2 >>

\* ------------------------------------------ CarbonAwareScheduler methods
\* The loop of schedule_pending_jobs over pending_jobs[k..]: each job's id is
\* handed to update_job_status, then scheduled_for is set on the job object
\* itself (after the save) and the object goes to one of the two lists.
RECURSIVE EvalLoop(_, _, _, _, _, _)
EvalLoop(st, pending_jobs, k, carbon_intensity, now, acc) ==
    IF k > Len(pending_jobs) THEN [ jobs |-> st.jobs, file |-> st.file,
                                    scheduled_jobs |-> acc.scheduled_jobs,
                                    deferred_jobs |-> acc.deferred_jobs ]
    ELSE
      LET j == pending_jobs[k]
          job == st.jobs[j]
      IN
      IF carbon_intensity < job.carbon_intensity_threshold
      THEN LET u == update_job_status(st.jobs, st.file, job.job_id, SCHEDULED)
               js == [ u.jobs EXCEPT ![j].scheduled_for = << now >> ]
           IN EvalLoop([ jobs |-> js, file |-> u.file ], pending_jobs, k + 1,
                       carbon_intensity, now,
                       [ acc EXCEPT !.scheduled_jobs = Append(@, j) ])
      ELSE LET u == update_job_status(st.jobs, st.file, job.job_id, DEFERRED)
               js == [ u.jobs EXCEPT
                          ![j].scheduled_for = << now + RescheduleHours >> ]
           IN EvalLoop([ jobs |-> js, file |-> u.file ], pending_jobs, k + 1,
                       carbon_intensity, now,
                       [ acc EXCEPT !.deferred_jobs = Append(@, j) ])

RECURSIVE SumEmissions(_, _)
SumEmissions(js, s) ==
    IF s = << >> THEN 0
    ELSE calculate_emissions_for_job(js[Head(s)]) + SumEmissions(js, Tail(s))

\* The dict schedule_pending_jobs returns and appends to the history.
EvalResult(e, carbon_intensity, now) ==
    [ timestamp |-> now,
      current_carbon_intensity |-> carbon_intensity,
      grid_greenness |-> Greenness(carbon_intensity),
      scheduled_count |-> Len(e.scheduled_jobs),
      deferred_count |-> Len(e.deferred_jobs),
      total_scheduled_jobs |-> Len(e.scheduled_jobs),
      estimated_emissions_saved_kg |-> SumEmissions(e.jobs, e.deferred_jobs),
      scheduled_jobs |->
          [ i \in 1..Len(e.scheduled_jobs) |-> asdict(e.jobs[e.scheduled_jobs[i]]) ],
      deferred_jobs |->
          [ i \in 1..Len(e.deferred_jobs) |-> asdict(e.jobs[e.deferred_jobs[i]]) ] ]

\* A schedule_pending_jobs that keeps the result of the last call only.
schedule_pending_jobs_keeping_last(carbon_intensity) ==
    LET pending_jobs == get_prioritized_queue(jobs)
        e == EvalLoop([ jobs |-> jobs, file |-> db_file ], pending_jobs, 1,
                      carbon_intensity, clock,
                      [ scheduled_jobs |-> << >>, deferred_jobs |-> << >> ])
        result == EvalResult(e, carbon_intensity, clock)
    IN
    /\ pc = "idle"
    /\ Len(schedule_history) < MaxEvals
    /\ jobs' = e.jobs
    /\ db_file' = e.file
    /\ schedule_history' = << result >>
    /\ ret' = [ op |-> "schedule_pending_jobs",
                pending_jobs |-> pending_jobs,
                scheduled_jobs |-> e.scheduled_jobs,
                deferred_jobs |-> e.deferred_jobs,
                value |-> result, raised |-> None ]
    /\ UNCHANGED << ledger, pc, run_job, pc2 >>

\* schedule_pending_jobs(region) with the provider reporting carbon_intensity.
\* ret keeps the three local lists of job objects beside the dict returned.
schedule_pending_jobs(carbon_intensity) ==
    LET pending_jobs == get_prioritized_queue(jobs)
        e == EvalLoop([ jobs |-> jobs, file |-> db_file ], pending_jobs, 1,
                      carbon_intensity, clock,
                      [ scheduled_jobs |-> << >>, deferred_jobs |-> << >> ])
        result == EvalResult(e, carbon_intensity, clock)
    IN
    /\ pc = "idle"
    /\ Len(schedule_history) < MaxEvals
    /\ jobs' = e.jobs
    /\ db_file' = e.file
    /\ schedule_history' = Append(schedule_history, result)
    /\ ret' = [ op |-> "schedule_pending_jobs",
                pending_jobs |-> pending_jobs,
                scheduled_jobs |-> e.scheduled_jobs,
                deferred_jobs |-> e.deferred_jobs,
                value |-> result, raised |-> None ]
    /\ UNCHANGED << ledger, pc, run_job, pc2 >>

Evaluate == \E carbon_intensity \in Intensities : schedule_pending_jobs(carbon_intensity)

\* run_scheduled_job(job_id) when no job has the id: an error dict is returned.
RunJobNotFound ==
    \E id \in JobIds :
        /\ pc = "idle"
        /\ FirstWithId(jobs, id) = 0
        /\ ret' = [ op |-> "run_scheduled_job", job_id |-> id,
                    outcome |-> "error", from_status |-> None,
                    value |-> << [ error |-> "Job not found" ] >>,
                    raised |-> None ]
        /\ UNCHANGED << store, ledger, schedule_history, pc, run_job, pc2 >>

\* run_scheduled_job(job_id) up to its time.sleep: the job found is set to
\* running, whatever its status, and the tracking is started.
RunJobCall ==
    \E id \in JobIds :
        LET j == FirstWithId(jobs, id)
            u == update_job_status(jobs, db_file, id, RUNNING)
        IN
        /\ pc = "idle"
        /\ j # 0
        /\ Len(emissions_log) < MaxLog
        /\ jobs' = u.jobs
        /\ db_file' = u.file
        /\ start_tracking(jobs[j].name)
        /\ pc' = "sleeping"
        /\ run_job' = j
        /\ ret' = [ op |-> "run_scheduled_job", job_id |-> id,
                    outcome |-> "sleeping",
                    from_status |-> << jobs[j].status >>,
                    value |-> None, raised |-> None ]
        /\ UNCHANGED << schedule_history, pc2 >>

\* time.sleep(min(5, duration_minutes)) raises ValueError on a negative
\* length: the call ends there.
RunJobSleepRaises ==
    /\ pc = "sleeping"
    /\ (IF SleepCap < jobs[run_job].duration_minutes
        THEN SleepCap ELSE jobs[run_job].duration_minutes) < 0
    /\ pc' = "idle"
    /\ run_job' = 0
    /\ ret' = [ ret EXCEPT !.outcome = "raised",
                            !.raised = << "ValueError" >> ]
    /\ UNCHANGED << store, ledger, schedule_history, pc2 >>

\* run_scheduled_job after the sleep: the tracking is stopped, the reading is
\* copied onto the job and the job's id is set to completed.
RunJobReturn ==
    /\ pc = "sleeping"
    /\ (IF SleepCap < jobs[run_job].duration_minutes
        THEN SleepCap ELSE jobs[run_job].duration_minutes) >= 0
    /\ \E emissions \in EmissionReadings :
          LET emissions_record == EmissionsRecord(emissions)
              js == [ jobs EXCEPT ![run_job].emissions_avoided_kg =
                                      emissions_record.emissions_kg_co2 ]
              u == update_job_status(js, db_file, jobs[run_job].job_id, COMPLETED)
          IN
          /\ stop_tracking(emissions)
          /\ jobs' = u.jobs
          /\ db_file' = u.file
          /\ ret' = [ ret EXCEPT
                        !.outcome = "completed",
                        !.value = << [ job_id |-> jobs[run_job].job_id,
                                       status |-> "completed",
                                       emissions_kg_co2 |->
                                           emissions_record.emissions_kg_co2,
                                       duration_seconds |->
                                           emissions_record.duration_seconds ] >> ]
    /\ pc' = "idle"
    /\ run_job' = 0
    /\ UNCHANGED << schedule_history, pc2 >>

\* A second session calls schedule_pending_jobs while the first may be inside
\* run_scheduled_job: nothing keeps it out.  The call first asks the provider
\* for the intensity, which may take up to the request's timeout.
ScheduleCall2 ==
    /\ pc2 = "idle"
    /\ Len(schedule_history) < MaxEvals
    /\ pc2' = "fetching"
    /\ UNCHANGED << store, ledger, schedule_history, pc, run_job, ret >>

\* The rest of the second session's schedule_pending_jobs, from the provider's
\* answer on: the queue is read and worked through as it is then.
ScheduleReturn2 ==
    \E carbon_intensity \in Intensities :
        LET pending_jobs == get_prioritized_queue(jobs)
            e == EvalLoop([ jobs |-> jobs, file |-> db_file ], pending_jobs, 1,
                          carbon_intensity, clock,
                          [ scheduled_jobs |-> << >>, deferred_jobs |-> << >> ])
        IN
        /\ pc2 = "fetching"
        /\ jobs' = e.jobs
        /\ db_file' = e.file
        /\ schedule_history' =
               Append(schedule_history, EvalResult(e, carbon_intensity, clock))
        /\ pc2' = "idle"
        /\ UNCHANGED << ledger, pc, run_job, ret >>

Next ==
    \/ AddJob
    \/ UpdateJobStatus
    \/ Evaluate
    \/ RunJobNotFound
    \/ RunJobCall
    \/ RunJobSleepRaises
    \/ RunJobReturn

\* The scheduler and its job store, as their callers drive them.
Spec == Init /\ [][Next]_vars

\* The ledger alone, called directly.
LedgerNext == StartTracking \/ StopTracking \/ GetEmissionsSummary

LedgerSpec == Init /\ [][LedgerNext]_vars

\* Two sessions on the one scheduler: the first adds and runs jobs, the second
\* evaluates.
ConcurrentNext ==
    \/ AddJob
    \/ RunJobCall
    \/ RunJobSleepRaises
    \/ RunJobReturn
    \/ ScheduleCall2
    \/ ScheduleReturn2

ConcurrentSpec == Init /\ [][ConcurrentNext]_vars

\* The carbon provider alone, called directly.
ProviderNext == GetGridCarbonIntensity \/ GetMultiRegionComparison

ProviderSpec == Init /\ [][ProviderNext]_vars

\* ======================================================== the properties
\* The job a call addressed by id acts on.
Addressed(js, id) == js[FirstWithId(js, id)]

Exists(js, id) == FirstWithId(js, id) # 0

\* The steps of the calls, told by what the call left in ret.
EvaluateStep == ret'.op = "schedule_pending_jobs"

SetStatusStep == ret'.op = "update_job_status"

RunJobCallStep == ret'.op = "run_scheduled_job" /\ pc = "idle"

RunJobEndStep == ret'.op = "run_scheduled_job" /\ pc = "sleeping"

AddStep == ret'.op = "add_job"

UniqueIds ==
    \A a, b \in 1..Len(jobs) : jobs[a].job_id = jobs[b].job_id => a = b

\* The state machine of the specification, read generously: Pending may be
\* run directly, Scheduled and Deferred may be decided again, and a request
\* for the status the job already has counts as no transition at all.
StateMachine(status) ==
    CASE status = PENDING -> { PENDING, SCHEDULED, DEFERRED, RUNNING }
      [] status = SCHEDULED -> { SCHEDULED, DEFERRED, RUNNING }
      [] status = DEFERRED -> { SCHEDULED, DEFERRED, RUNNING }
      [] status = RUNNING -> { RUNNING, COMPLETED }
      [] status = COMPLETED -> { COMPLETED }
      [] OTHER -> { }

\* C1: after an evaluation cycle every job the cycle considered is Scheduled
\* when the intensity fetched is strictly below its threshold, and Deferred
\* when the intensity is equal to the threshold or above it.
C1_EvaluateDecidesByThreshold ==
    ret.op = "schedule_pending_jobs" =>
        \A k \in 1..Len(ret.pending_jobs) :
            LET job == jobs[ret.pending_jobs[k]] IN
            IF ret.value.current_carbon_intensity < job.carbon_intensity_threshold
            THEN job.status = SCHEDULED
            ELSE job.status = DEFERRED

\* C2: no step takes a job out of Completed, and a Running job's next status
\* is Running or Completed.
C2_NoBackwardTransition ==
    [][ \A i \in 1..Len(jobs) :
            /\ jobs[i].status = COMPLETED => jobs'[i].status = COMPLETED
            /\ jobs[i].status = RUNNING =>
                   jobs'[i].status \in { RUNNING, COMPLETED } ]_vars

\* C3: setStatus on an existing job changes the status only along a transition
\* of the state machine; any other request is rejected with InvalidTransition
\* and leaves the status as it was.
C3_SetStatusValidates ==
    [][ (SetStatusStep /\ Exists(jobs, ret'.job_id)) =>
            LET i == FirstWithId(jobs, ret'.job_id) IN
            IF ret'.new_status \in StateMachine(jobs[i].status)
            THEN jobs'[i].status = ret'.new_status
            ELSE /\ ret'.raised = << "InvalidTransition" >>
                 /\ jobs'[i].status = jobs[i].status ]_vars

\* C4: runJob on a job that is neither Scheduled nor Pending fails with
\* InvalidTransition and changes neither the job store nor the ledger.
C4_RunJobRejectsOtherStatuses ==
    [][ ( /\ RunJobCallStep
          /\ Exists(jobs, ret'.job_id)
          /\ Addressed(jobs, ret'.job_id).status \notin { SCHEDULED, PENDING } ) =>
            /\ ret'.raised = << "InvalidTransition" >>
            /\ UNCHANGED << store, ledger >> ]_vars

\* C5: an evaluation cycle moves to Scheduled every Deferred job whose
\* threshold is strictly above the intensity the cycle fetched.
C5_DeferredIsEvaluatedAgain ==
    [][ EvaluateStep =>
            \A i \in 1..Len(jobs) :
                ( /\ jobs[i].status = DEFERRED
                  /\ ret'.value.current_carbon_intensity
                         < jobs[i].carbon_intensity_threshold ) =>
                    jobs'[i].status = SCHEDULED ]_vars

IsSubSeqOf(sub, s) ==
    \E f \in [ 1..Len(sub) -> 1..Len(s) ] :
        /\ \A a \in 1..Len(sub) : s[f[a]] = sub[a]
        /\ \A a, b \in 1..Len(sub) : a < b => f[a] < f[b]

\* C6: the queue an evaluation cycle works through holds exactly the Pending
\* jobs, each once, by descending priority, jobs of equal priority in the order
\* in which they were added; the cycle decides them in that order: its
\* scheduled and deferred lists split the queue and each keeps the queue's
\* order, and the dicts of the result are those of the listed jobs, in order.
C6_PrioritizedOrder ==
    [][ EvaluateStep =>
            LET q == ret'.pending_jobs
                sch == ret'.scheduled_jobs
                def == ret'.deferred_jobs
            IN
            /\ { q[k] : k \in 1..Len(q) } =
                   { i \in 1..Len(jobs) : jobs[i].status = PENDING }
            /\ \A a, b \in 1..Len(q) : a < b =>
                   /\ q[a] # q[b]
                   /\ jobs[q[a]].priority >= jobs[q[b]].priority
                   /\ jobs[q[a]].priority = jobs[q[b]].priority => q[a] < q[b]
            /\ IsSubSeqOf(sch, q)
            /\ IsSubSeqOf(def, q)
            /\ Len(sch) + Len(def) = Len(q)
            /\ \A a \in 1..Len(sch), b \in 1..Len(def) : sch[a] # def[b]
            /\ ret'.value.scheduled_jobs =
                   [ a \in 1..Len(sch) |-> asdict(jobs'[sch[a]]) ]
            /\ ret'.value.deferred_jobs =
                   [ a \in 1..Len(def) |-> asdict(jobs'[def[a]]) ] ]_vars

\* A cycle has worked through a queue of two jobs of equal priority and
\* different ids, and has listed both in its result.
C6_Witness ==
    /\ ret.op = "schedule_pending_jobs"
    /\ Len(ret.pending_jobs) = 2
    /\ jobs[ret.pending_jobs[1]].priority = jobs[ret.pending_jobs[2]].priority
    /\ jobs[ret.pending_jobs[1]].job_id # jobs[ret.pending_jobs[2]].job_id
    /\ Len(ret.value.scheduled_jobs) + Len(ret.value.deferred_jobs) = 2

\* C7: a runJob that fails after the job was moved to Running leaves the job
\* Running with emissionsAvoidedKg 0, and a runJob that marks the job
\* Completed has appended an emissions record.
C7_FailedRunLeavesRunning ==
    [][ RunJobEndStep =>
            LET job == Addressed(jobs', ret'.job_id) IN
            /\ ret'.outcome = "raised" =>
                   /\ job.status = RUNNING
                   /\ job.emissions_avoided_kg = 0
            /\ job.status = COMPLETED =>
                   Len(emissions_log') = Len(emissions_log) + 1 ]_vars

\* C8: a runJob on a Scheduled job that succeeds passes through Running, ends
\* with the job Completed, appends exactly one emissions record, leaves the
\* record's emissions figure on the job in memory and in the file, and leaves
\* no bracket open.
C8_SuccessfulRun ==
    [][ ( /\ RunJobEndStep
          /\ ret'.outcome = "completed"
          /\ ret'.from_status = << SCHEDULED >> ) =>
            LET i == FirstWithId(jobs', ret'.job_id) IN
            /\ jobs[i].status = RUNNING
            /\ jobs'[i].status = COMPLETED
            /\ emissions_log' =
                   Append(emissions_log, emissions_log'[Len(emissions_log')])
            /\ jobs'[i].emissions_avoided_kg =
                   emissions_log'[Len(emissions_log')].emissions_kg_co2
            /\ db_file'[i] = json_dump(asdict(jobs'[i]))
            /\ ~tracker' ]_vars

\* C9: setStatus and runJob addressed to an id that no job has fail with
\* NotFound and change neither the job store nor the ledger.
C9_UnknownIdFails ==
    [][ ( /\ SetStatusStep \/ RunJobCallStep
          /\ ~Exists(jobs, ret'.job_id) ) =>
            /\ ret'.raised = << "NotFound" >>
            /\ UNCHANGED << store, ledger >> ]_vars

ValidJob(job) ==
    /\ job.priority \in 1..5
    /\ job.duration_minutes > 0
    /\ job.power_draw_watts > 0

\* C10: add of a job with priority outside 1..5, or a duration or a power draw
\* of 0 or less, fails with ValidationError and leaves the jobs and the file
\* as they were, so that every job of the store is valid.
C10_AddValidates ==
    [][ /\ (AddStep /\ ~ValidJob(ret'.job)) =>
              /\ ret'.raised = << "ValidationError" >>
              /\ UNCHANGED store
        /\ \A i \in 1..Len(jobs') : ValidJob(jobs'[i]) ]_vars

\* C11: the job that add has stored is Pending, with no scheduled_for and an
\* emissions figure of 0, whatever the object handed in carried.
C11_AddStoresInitialState ==
    [][ AddStep =>
            LET job == jobs'[Len(jobs')] IN
            /\ job.status = PENDING
            /\ job.scheduled_for = None
            /\ job.emissions_avoided_kg = 0 ]_vars

\* The steps of the ledger's calls.
StartTrackingStep == ret'.op = "start_tracking"

StopTrackingStep == ret'.op = "stop_tracking"

\* C12: a startTracking that follows a startTracking with no stopTracking in
\* between finds a bracket open: it fails with TrackingAlreadyActive and leaves
\* the bracket (label, start time) and the log as they were.
C12_StartWhileOpenFails ==
    [][ (ret.op = "start_tracking" /\ StartTrackingStep) =>
            /\ ret'.raised = << "TrackingAlreadyActive" >>
            /\ UNCHANGED ledger ]_vars

\* C13: a stopTracking when no bracket was ever opened fails with
\* NoActiveTracking, returns no record, empty or partial, and appends nothing
\* to the log.
C13_StopWithoutBracketFails ==
    [][ (StopTrackingStep /\ ~tracker) =>
            /\ ret'.raised = << "NoActiveTracking" >>
            /\ UNCHANGED << emissions_log, emissions_file >> ]_vars

\* The fields of a summary.
SummaryFields ==
    { "total_jobs", "total_emissions_kg", "avg_emissions_per_job_kg",
      "total_duration_hours", "max_single_job_kg", "min_single_job_kg" }

\* C14: summary() does not raise and returns the six fields, on an empty log
\* as on any other, and on an empty log every one of the six is 0.
C14_SummaryOfEmptyLog ==
    ret.op = "get_emissions_summary" =>
        /\ ret.raised = None
        /\ DOMAIN ret.value = SummaryFields
        /\ emissions_log = << >> =>
               \A f \in SummaryFields : ret.value[f] = 0

\* C15: whenever no call is in progress the file holds what a save of the
\* jobs in memory writes: every job, every field.
C15_WriteThrough ==
    pc = "idle" => db_file = save_jobs(jobs)

\* C16: a load of what a save of the jobs writes gives the same jobs, in the
\* same order, with every field as it was.
C16_SaveLoadRoundTrip ==
    load_jobs(save_jobs(jobs), clock) = jobs

\* The file holds a save of two jobs of different status, one with a
\* scheduled_for and one without, and a load of it gives these jobs.
C16_Witness ==
    /\ Len(jobs) = 2
    /\ db_file = save_jobs(jobs)
    /\ load_jobs(db_file, clock) = jobs
    /\ jobs[1].status # jobs[2].status
    /\ \E i \in 1..2 : jobs[i].scheduled_for = None
    /\ \E i \in 1..2 : jobs[i].scheduled_for # None

\* C17: no two jobs of the store have the same id, an add of an id the store
\* already has creates no second job, and no step changes the id or the
\* submitted_at of a job.
C17_IdsUniqueAndImmutable ==
    [][ /\ UniqueIds'
        /\ (AddStep /\ Exists(jobs, ret'.job.job_id)) => Len(jobs') = Len(jobs)
        /\ \A i \in 1..Len(jobs) :
              /\ jobs'[i].job_id = jobs[i].job_id
              /\ jobs'[i].submitted_at = jobs[i].submitted_at ]_vars

\* C18: evaluate and runJob exclude each other: in no state is a runJob
\* between its start and its end while another session's evaluate is between
\* its start and its end.
C18_MutualExclusion ==
    ~(pc = "sleeping" /\ pc2 = "fetching")

\* The response carries an intensity that can be used: it came, with status
\* 200, and its payload is an object whose carbonIntensity is a number.
Usable(response) ==
    /\ ~response.raised
    /\ response.status_code = 200
    /\ response.json # None
    /\ "carbonIntensity" \in DOMAIN response.json[1]
    /\ response.json[1].carbonIntensity[1] = "number"

IsSynthetic(grid_status) ==
    /\ "is_mock" \in DOMAIN grid_status
    /\ grid_status.is_mock

\* C19: fetchIntensity raises nothing and returns a grid status with an
\* intensity and a band whatever the request came to, and when the request
\* brought no usable intensity the status is marked synthetic and its
\* intensity is within 100 of the region's baseline.
C19_FetchNeverFails ==
    ret.op = "get_grid_carbon_intensity" =>
        /\ ret.raised = None
        /\ { "carbonIntensity", "greenness", "region", "timestamp" }
               \subseteq DOMAIN ret.value
        /\ ~Usable(ret.response) =>
               /\ IsSynthetic(ret.value)
               /\ ret.value.carbonIntensity >=
                      MockBaseline(ret.region) - JitterRange
               /\ ret.value.carbonIntensity <=
                      MockBaseline(ret.region) + JitterRange

\* C20 as stated: a grid status, real or synthetic, is HIGH below 200, MEDIUM
\* from 200 through 400 inclusive, and LOW above 400.
C20_BandsThrough400 ==
    ret.op = "get_grid_carbon_intensity" =>
        LET intensity == ret.value.carbonIntensity IN
        ret.value.greenness =
            IF intensity < 200 THEN "HIGH"
            ELSE IF intensity <= 400 THEN "MEDIUM"
            ELSE "LOW"

\* C20: a grid status, real or synthetic, is HIGH below 200, MEDIUM from 200
\* up to but not including 400, and LOW from 400 on: an intensity of exactly
\* 400 is LOW.
C20_GreennessBands ==
    ret.op = "get_grid_carbon_intensity" =>
        LET intensity == ret.value.carbonIntensity IN
        /\ intensity < 200 => ret.value.greenness = "HIGH"
        /\ (200 <= intensity /\ intensity < 400) =>
               ret.value.greenness = "MEDIUM"
        /\ intensity >= 400 => ret.value.greenness = "LOW"

\* A real grid status with an intensity of exactly 400 has been returned.
C20_Witness ==
    /\ ret.op = "get_grid_carbon_intensity"
    /\ ~IsSynthetic(ret.value)
    /\ ret.value.carbonIntensity = 400
    /\ ret.value.greenness = "LOW"

\* The first position of a region in a list.
FirstPosition(regions, region) ==
    CHOOSE p \in 1..Len(regions) :
        /\ regions[p] = region
        /\ \A q \in 1..(p - 1) : regions[q] # region

\* C21: a comparison of a list of regions that is not empty returns one grid
\* status for each region of the list and for no other; the greenest region
\* it reports is a region of the list whose status has the lowest intensity
\* of all, the greenest intensity is the intensity of that region's status,
\* and of several regions with the lowest intensity the one that comes first
\* in the list is reported.
C21_CompareRegions ==
    ret.op = "get_multi_region_comparison" =>
        LET items == ret.value.regions
            InList == { ret.regions[p] : p \in 1..Len(ret.regions) }
            Lowest == { i \in 1..Len(items) :
                          \A k \in 1..Len(items) :
                              items[i].value.carbonIntensity
                                  <= items[k].value.carbonIntensity }
        IN
        /\ ret.raised = None
        /\ { items[i].key : i \in 1..Len(items) } = InList
        /\ \A i, k \in 1..Len(items) : items[i].key = items[k].key => i = k
        /\ \A i \in 1..Len(items) : items[i].value.region = items[i].key
        /\ \E i \in Lowest :
              /\ items[i].key = ret.value.greenest_region
              /\ items[i].value.carbonIntensity = ret.value.greenest_intensity
              /\ \A k \in Lowest :
                    FirstPosition(ret.regions, items[i].key)
                        <= FirstPosition(ret.regions, items[k].key)

\* A comparison has been returned in which two regions of the list share the
\* lowest intensity, and the one reported comes first in the list.
C21_Witness ==
    /\ ret.op = "get_multi_region_comparison"
    /\ \E p, q \in 1..Len(ret.regions) :
          /\ p < q
          /\ ret.regions[p] # ret.regions[q]
          /\ ret.regions[p] = ret.value.greenest_region
          /\ \E i, k \in 1..Len(ret.value.regions) :
                /\ ret.value.regions[i].key = ret.regions[p]
                /\ ret.value.regions[k].key = ret.regions[q]
                /\ ret.value.regions[i].value.carbonIntensity
                       = ret.value.greenest_intensity
                /\ ret.value.regions[k].value.carbonIntensity
                       = ret.value.greenest_intensity

\* What C22 asks of an evaluation step.
SetsScheduledFor ==
    /\ \A i \in 1..Len(jobs) :
          /\ (jobs[i].status # SCHEDULED /\ jobs'[i].status = SCHEDULED) =>
                 jobs'[i].scheduled_for = << ret'.value.timestamp >>
          /\ (jobs[i].status # DEFERRED /\ jobs'[i].status = DEFERRED) =>
                 jobs'[i].scheduled_for =
                     << ret'.value.timestamp + RescheduleHours >>
    /\ \A k \in 1..Len(ret'.scheduled_jobs) :
          jobs'[ret'.scheduled_jobs[k]].scheduled_for
              = << ret'.value.timestamp >>
    /\ \A k \in 1..Len(ret'.deferred_jobs) :
          jobs'[ret'.deferred_jobs[k]].scheduled_for
              = << ret'.value.timestamp + RescheduleHours >>

\* C22: a job an evaluation cycle moves to Scheduled has the time of the
\* evaluation as its scheduled_for, a job it moves to Deferred has that time
\* plus 6 hours, and as long as no cycle has run no job has a scheduled_for.
C22_EvaluateSetsScheduledFor ==
    [][ /\ EvaluateStep => SetsScheduledFor
        /\ schedule_history' = << >> =>
               \A i \in 1..Len(jobs') : jobs'[i].scheduled_for = None ]_vars

\* C23: an evaluation cycle appends one entry to the history, the result it
\* returns, whose counts are the lengths of its two lists of jobs; no other
\* step changes the history; and no step changes or removes an entry the
\* history already has.
C23_HistoryAppendOnly ==
    [][ /\ EvaluateStep =>
              /\ schedule_history' = Append(schedule_history, ret'.value)
              /\ ret'.value.scheduled_count = Len(ret'.value.scheduled_jobs)
              /\ ret'.value.deferred_count = Len(ret'.value.deferred_jobs)
        /\ ~EvaluateStep => schedule_history' = schedule_history
        /\ Len(schedule_history') >= Len(schedule_history)
        /\ \A k \in 1..Len(schedule_history) :
              schedule_history'[k] = schedule_history[k] ]_vars

\* The history has two entries, and a job the first lists as scheduled has
\* been completed since.
C23_Witness ==
    /\ Len(schedule_history) = 2
    /\ \E k \in 1..Len(schedule_history[1].scheduled_jobs) :
          /\ schedule_history[1].scheduled_jobs[k].status = SCHEDULED
          /\ \E i \in 1..Len(jobs) :
                /\ jobs[i].job_id = schedule_history[1].scheduled_jobs[k].job_id
                /\ jobs[i].status = COMPLETED

\* C24: a stopTracking that returned a record has closed its bracket, so that
\* a stopTracking right after it appends nothing; and no step changes or
\* removes a record the log already has.
C24_StopClosesBracket ==
    [][ /\ ( /\ ret.op = "stop_tracking"
              /\ ret.value # None
              /\ StopTrackingStep ) =>
                emissions_log' = emissions_log
        /\ Len(emissions_log') >= Len(emissions_log)
        /\ \A k \in 1..Len(emissions_log) :
              emissions_log'[k] = emissions_log[k] ]_vars

\* C25: between calls a job that is not Completed has an emissions figure of
\* 0, and a step that changes the figure of a job is the end of a runJob that
\* leaves the job Completed.
C25_EmissionsOnlyWhenCompleted ==
    [][ /\ pc' = "idle" =>
              \A i \in 1..Len(jobs') :
                  jobs'[i].status # COMPLETED =>
                      jobs'[i].emissions_avoided_kg = 0
        /\ \A i \in 1..Len(jobs) :
              jobs'[i].emissions_avoided_kg # jobs[i].emissions_avoided_kg =>
                  /\ RunJobEndStep
                  /\ ret'.outcome = "completed"
                  /\ jobs'[i].status = COMPLETED ]_vars

\* The number of places of a list at which a job stands.
Occurrences(list, i) == Cardinality({ k \in 1..Len(list) : list[k] = i })

\* What C26 asks of an evaluation step.
DecidesEveryPendingOnce ==
    /\ \A i \in 1..Len(jobs') : jobs'[i].status # PENDING
    /\ \A i \in 1..Len(jobs) :
          jobs[i].status = PENDING =>
              Occurrences(ret'.scheduled_jobs, i)
                  + Occurrences(ret'.deferred_jobs, i) = 1
    /\ ret'.value.scheduled_count + ret'.value.deferred_count
           = Len(ret'.pending_jobs)
    /\ ret'.value.scheduled_count = Len(ret'.value.scheduled_jobs)
    /\ ret'.value.deferred_count = Len(ret'.value.deferred_jobs)

\* C26: when an evaluation cycle returns no job is Pending, every job that
\* was Pending before it stands once in the scheduled list or once in the
\* deferred list and not in both, and the two counts of the result add up to
\* the number of jobs the cycle considered.
C26_EvaluateDecidesEveryPending ==
    [][ EvaluateStep => DecidesEveryPendingOnce ]_vars

\* What C27 asks of an evaluation step.
LeavesRunningAndCompletedAlone ==
    /\ \A i \in 1..Len(jobs) :
          jobs[i].status \in { RUNNING, COMPLETED } =>
              /\ jobs'[i] = jobs[i]
              /\ Occurrences(ret'.pending_jobs, i) = 0
              /\ Occurrences(ret'.scheduled_jobs, i) = 0
              /\ Occurrences(ret'.deferred_jobs, i) = 0
    /\ UNCHANGED ledger

\* C27: an evaluation cycle changes no field of a job that is Running or
\* Completed when it is called, lists no such job in its result, and changes
\* neither the log nor the bracket of the ledger.
C27_EvaluateLeavesRunningAlone ==
    [][ EvaluateStep => LeavesRunningAndCompletedAlone ]_vars

\* ------------------------------------------------- what does hold of them
\* Where the job ids of the store are unique, a cycle decides every job it
\* considers by the strict comparison (C1 without duplicate ids).
DecidesByThresholdWhenIdsUnique ==
    UniqueIds => C1_EvaluateDecidesByThreshold

\* A run that raises leaves the job Running and its emissions figure as it
\* was, and a run that completes a job has appended a record (C7 with
\* "unchanged" for "0").
FailedRunLeavesJobAsItWas ==
    [][ RunJobEndStep =>
            LET job == Addressed(jobs', ret'.job_id) IN
            /\ ret'.outcome = "raised" =>
                   /\ job.status = RUNNING
                   /\ job.emissions_avoided_kg =
                          Addressed(jobs, ret'.job_id).emissions_avoided_kg
            /\ job.status = COMPLETED =>
                   Len(emissions_log') = Len(emissions_log) + 1 ]_vars

\* A run that succeeds, whatever the status it started from, goes from Running
\* to Completed, appends one record and leaves its figure on the job, in
\* memory and in the file (C8 without the closed bracket).
SuccessfulRunRecordsEmissions ==
    [][ (RunJobEndStep /\ ret'.outcome = "completed") =>
            LET i == FirstWithId(jobs', ret'.job_id) IN
            /\ jobs[i].status = RUNNING
            /\ jobs'[i].status = COMPLETED
            /\ emissions_log' =
                   Append(emissions_log, emissions_log'[Len(emissions_log')])
            /\ jobs'[i].emissions_avoided_kg =
                   emissions_log'[Len(emissions_log')].emissions_kg_co2
            /\ db_file'[i] = json_dump(asdict(jobs'[i])) ]_vars

\* A call addressed to an id that no job has changes neither the job store nor
\* the ledger (C9 without the typed error).
UnknownIdChangesNothing ==
    [][ ( /\ SetStatusStep \/ RunJobCallStep
          /\ ~Exists(jobs, ret'.job_id) ) =>
            UNCHANGED << store, ledger >> ]_vars
\* The file differs from a save of the jobs in memory in nothing but the
\* scheduled_for of jobs (C15 without that field).
FileLagsInScheduledForOnly ==
    pc = "idle" =>
        /\ Len(db_file) = Len(jobs)
        /\ \A i \in 1..Len(jobs) :
              db_file[i] = [ json_dump(asdict(jobs[i])) EXCEPT
                                 !.scheduled_for = db_file[i].scheduled_for ]
\* No step removes a job or changes the id or the submitted_at of a job
\* (C17 without the uniqueness).
IdsImmutable ==
    [][ /\ Len(jobs') >= Len(jobs)
        /\ \A i \in 1..Len(jobs) :
              /\ jobs'[i].job_id = jobs[i].job_id
              /\ jobs'[i].submitted_at = jobs[i].submitted_at ]_vars
\* A fetch raises nothing and returns a grid status whatever the request came
\* to, and a status that is marked synthetic has an intensity within 100 of
\* the region's baseline (C19 without the case of a payload that lacks the
\* intensity).
FetchAlwaysReturns ==
    ret.op = "get_grid_carbon_intensity" =>
        /\ ret.raised = None
        /\ { "carbonIntensity", "greenness", "region", "timestamp" }
               \subseteq DOMAIN ret.value
        /\ IsSynthetic(ret.value) =>
               /\ ret.value.carbonIntensity >=
                      MockBaseline(ret.region) - JitterRange
               /\ ret.value.carbonIntensity <=
                      MockBaseline(ret.region) + JitterRange
        /\ (~Usable(ret.response) /\ ~IsSynthetic(ret.value)) =>
               /\ "carbonIntensity" \notin DOMAIN ret.response.json[1]
               /\ ret.value.carbonIntensity = DefaultIntensity
\* Where the job ids of the store are unique, a cycle sets scheduled_for on
\* every job it moves (C22 without duplicate ids).
SetsScheduledForWhenIdsUnique ==
    [][ /\ (EvaluateStep /\ UniqueIds) => SetsScheduledFor
        /\ schedule_history' = << >> =>
               \A i \in 1..Len(jobs') : jobs'[i].scheduled_for = None ]_vars
\* No step changes or removes a record the log already has (C24 without the
\* closing of the bracket).
LogAppendOnly ==
    [][ /\ Len(emissions_log') >= Len(emissions_log)
        /\ \A k \in 1..Len(emissions_log) :
              emissions_log'[k] = emissions_log[k] ]_vars
\* A step that changes the emissions figure of a job is the end of a runJob
\* that leaves the job Completed (C25 without the figure being 0 before).
EmissionsChangeOnlyOnCompletion ==
    [][ \A i \in 1..Len(jobs) :
            jobs'[i].emissions_avoided_kg # jobs[i].emissions_avoided_kg =>
                /\ RunJobEndStep
                /\ ret'.outcome = "completed"
                /\ jobs'[i].status = COMPLETED ]_vars
\* Where the job ids of the store are unique, a cycle leaves no job Pending
\* and lists every job it found Pending once (C26 without duplicate ids).
DecidesEveryPendingWhenIdsUnique ==
    [][ (EvaluateStep /\ UniqueIds) => DecidesEveryPendingOnce ]_vars
\* Where the job ids of the store are unique, a cycle leaves the Running and
\* the Completed jobs and the ledger as they were (C27 without duplicate ids).
LeavesRunningAloneWhenIdsUnique ==
    [][ (EvaluateStep /\ UniqueIds) => LeavesRunningAndCompletedAlone ]_vars
====
